---- MODULE Spec2Model ----
(***************************************************************************)
(* EV station location planning service: the prediction pipeline of        *)
(* final/backend/model_loader.py (EVStationPredictor) and the two POST     *)
(* handlers of final/backend/app.py (/predict and /batch_analyze).         *)
(*                                                                         *)
(* Python values are records tagged with their kind: numbers are exact     *)
(* rationals n/d (d > 0), so that daily_vehicles / 1000 and 100 / roi are  *)
(* computed without rounding; dictionaries are functions whose domain is   *)
(* the set of keys present.  A function that can raise returns             *)
(* [ok |-> TRUE, v |-> value] or [ok |-> FALSE, v |-> exception name].     *)
(*                                                                         *)
(* Spec is the service: startup, then any sequence of /predict and         *)
(* /batch_analyze requests.  SpecPipeline is one run of                    *)
(* predict_ev_station_viability after startup, over every registry the     *)
(* startup can produce and a wide set of records, keeping the locals of    *)
(* the run.  SpecRepeat is any sequence of such runs over a few records,   *)
(* remembering what the first run on each record returned.                 *)
(***************************************************************************)
EXTENDS Integers, Sequences, FiniteSets, TLC

VARIABLES
    phase,               \* "init" until load_ev_models has run, then "ready"
    xgb_file,            \* models/xgb_model.json on disk
    cluster_file,        \* models/cluster_model.pkl on disk
    models,              \* EVStationPredictor.models
    request,             \* body of the request handled last
    response,            \* [status, body] returned for it
    calls,               \* arguments of predict_ev_station_viability made by that handler, in order
    pc,                  \* stage of the pipeline run (pipeline specification)
    location_data,       \* record under analysis
    features,            \* prepare_ev_features(location_data)
    base_roi,            \* base_roi of predict_roi, before adjust_roi
    roi_prediction,      \* predict_roi(...)
    cluster_prediction,  \* predict_location_cluster(...)
    result,              \* predict_ev_station_viability(...)
    history,             \* record -> what the first run on it returned (repeat specification)
    repeat               \* the run just made was on a record already in history

vars == <<phase, xgb_file, cluster_file, models, request, response, calls,
          pc, location_data, features, base_roi, roi_prediction, cluster_prediction, result,
          history, repeat>>

svcVars == <<phase, xgb_file, cluster_file, request, response, calls>>
pipeVars == <<pc, location_data, features, base_roi, roi_prediction, cluster_prediction, result>>
repeatVars == <<history, repeat>>

---------------------------------------------------------------------------
(* Bounds of the model *)

MaxTrainedRoi == 40         \* largest output of a trained ROI model
MinTrainedRoiNeg == 10      \* magnitude of its most negative output
MaxTrainedCluster == 5      \* trained classifiers return ids 0..MaxTrainedCluster
MaxBatch == 2               \* longest 'locations' list of a batch request

---------------------------------------------------------------------------
(* Python values *)

Num(n) == [kind |-> "num", n |-> n, d |-> 1]
Frac(n, d) == [kind |-> "num", n |-> n, d |-> d]
StrV(s) == [kind |-> "str", s |-> s]
BoolV(b) == [kind |-> "bool", n |-> IF b THEN 1 ELSE 0, d |-> 1]
Inf == [kind |-> "inf"]
None == [kind |-> "none"]

Ok(v) == [ok |-> TRUE, v |-> v]
Raise(e) == [ok |-> FALSE, v |-> e]

\* int, float and bool take part in arithmetic and ordering; str does not
IsNumeric(v) == v.kind \in {"num", "bool"}

\* bool(v)
Truthy(v) ==
    CASE v.kind \in {"num", "bool"} -> v.n # 0
      [] v.kind = "str" -> v.s # ""
      [] v.kind = "none" -> FALSE
      [] OTHER -> TRUE

\* v > k, v < k, v >= k, v <= k for a numeric v and an integer k
Gt(v, k) == v.n > k * v.d
Lt(v, k) == v.n < k * v.d
Ge(v, k) == v.n >= k * v.d
Le(v, k) == v.n <= k * v.d
NumEq(v, w) == v.n * w.d = w.n * v.d
NumLe(v, w) == v.n * w.d <= w.n * v.d

Plus(v, k) == Frac(v.n + k * v.d, v.d)
Times(v, k) == Frac(v.n * k, v.d)
DivBy(v, k) == Frac(v.n, v.d * k)
MinNum(v, w) == IF NumLe(v, w) THEN v ELSE w
MaxNum(v, w) == IF NumLe(v, w) THEN w ELSE v

\* int(n / d): truncation towards zero
Trunc(n, d) == IF n >= 0 THEN n \div d ELSE -((-n) \div d)

\* dict.get(key, default)
Get(dict, key, default) == IF key \in DOMAIN dict THEN dict[key] ELSE default

\* a JSON object, as opposed to a JSON string, number or null
IsMapping(x) == "kind" \notin DOMAIN x

EmptyDict == [k \in {} |-> None]

---------------------------------------------------------------------------
(* Model artifacts and the registry *)

AbsentFile == [state |-> "absent"]
CorruptFile == [state |-> "corrupt"]
ValidFile(raises, out) == [state |-> "valid", raises |-> raises, out |-> out]

\* outputs of a trained ROI model: below the floor, fractional, above the cap
TrainedRoiOutputs == {Num(-MinTrainedRoiNeg), Frac(19, 2), Num(MaxTrainedRoi)}

XgbFiles == {AbsentFile, CorruptFile, ValidFile(TRUE, Num(0))}
            \cup {ValidFile(FALSE, r) : r \in TrainedRoiOutputs}

ClusterFiles == {AbsentFile, CorruptFile, ValidFile(TRUE, 0)}
                \cup {ValidFile(FALSE, c) : c \in 0..MaxTrainedCluster}

FallbackRoi == [type |-> "str", value |-> "fallback"]
Booster(file) == [type |-> "Booster", raises |-> file.raises, out |-> file.out]
Pickled(file) == [type |-> "Pickled", raises |-> file.raises, out |-> file.out]
UnfittedKMeans == [type |-> "KMeans", n_clusters |-> 4, fitted |-> FALSE]

NoModels == [k \in {} |-> FallbackRoi]

create_fallback_roi_model(m) ==
    [k \in DOMAIN m \cup {"roi_predictor"} |->
        IF k = "roi_predictor" THEN FallbackRoi ELSE m[k]]

create_fallback_cluster_model(m) ==
    [k \in DOMAIN m \cup {"location_cluster"} |->
        IF k = "location_cluster" THEN UnfittedKMeans ELSE m[k]]

\* a first try block that registers the fallback marker for an absent file too
load_roi_predictor_absentfallback(m, file) ==
    CASE file.state = "absent" -> create_fallback_roi_model(m)
      [] file.state = "corrupt" -> create_fallback_roi_model(m)
      [] OTHER -> [k \in DOMAIN m \cup {"roi_predictor"} |->
                      IF k = "roi_predictor" THEN Booster(file) ELSE m[k]]

\* first try block of load_essential_models
load_roi_predictor(m, file) ==
    CASE file.state = "absent" -> m
      [] file.state = "corrupt" -> create_fallback_roi_model(m)
      [] OTHER -> [k \in DOMAIN m \cup {"roi_predictor"} |->
                      IF k = "roi_predictor" THEN Booster(file) ELSE m[k]]

\* second try block of load_essential_models
load_location_cluster(m, file) ==
    CASE file.state = "absent" -> m
      [] file.state = "corrupt" -> create_fallback_cluster_model(m)
      [] OTHER -> [k \in DOMAIN m \cup {"location_cluster"} |->
                      IF k = "location_cluster" THEN Pickled(file) ELSE m[k]]

load_essential_models(m, xgb, cluster) ==
    load_location_cluster(load_roi_predictor(m, xgb), cluster)

---------------------------------------------------------------------------
(* Feature construction *)

FeatureNames == {"traffic_density", "population_density", "income_level",
                 "commercial_score", "residential_score", "industrial_score",
                 "proximity_highway", "proximity_mall", "proximity_office",
                 "ev_adoption_rate", "solar_potential", "land_cost",
                 "electricity_cost", "government_subsidy", "competition_score"}

\* raises TypeError when one of the three divided attributes is not a number
prepare_ev_features(ld) ==
    LET dv == Get(ld, "daily_vehicles", Num(0))
        ai == Get(ld, "avg_income", Num(0))
        lc == Get(ld, "land_cost", Num(0))
    IN  IF ~IsNumeric(dv) \/ ~IsNumeric(ai) \/ ~IsNumeric(lc)
        THEN Raise("TypeError")
        ELSE Ok([traffic_density    |-> DivBy(dv, 1000),
                 population_density |-> Get(ld, "population_density", Num(0)),
                 income_level       |-> DivBy(ai, 1000),
                 commercial_score   |-> Get(ld, "commercial_score", Num(0)),
                 residential_score  |-> Get(ld, "residential_score", Num(0)),
                 industrial_score   |-> Get(ld, "industrial_score", Num(0)),
                 proximity_highway  |-> Get(ld, "highway_distance", Num(10)),
                 proximity_mall     |-> Get(ld, "mall_distance", Num(5)),
                 proximity_office   |-> Get(ld, "office_distance", Num(3)),
                 ev_adoption_rate   |-> Get(ld, "ev_adoption", Num(0)),
                 solar_potential    |-> Get(ld, "solar_potential", Num(0)),
                 land_cost          |-> DivBy(lc, 100000),
                 electricity_cost   |-> Get(ld, "electricity_rate", Num(0)),
                 government_subsidy |-> Get(ld, "subsidy_available", Num(0)),
                 competition_score  |-> Get(ld, "competition", Num(0))])

\* np.array([list(features.values())]) is a float matrix only if every entry is a number
NumericArray(f) == \A k \in FeatureNames : IsNumeric(f[k])

---------------------------------------------------------------------------
(* ROI estimation *)

\* calculate_fallback_roi starting from 10 instead of 12
calculate_fallback_roi_lowbase(f) ==
    IF \E k \in {"traffic_density", "income_level", "ev_adoption_rate",
                 "competition_score", "government_subsidy"} : ~IsNumeric(f[k])
    THEN Raise("TypeError")
    ELSE LET b == 10
                  + (IF Gt(f.traffic_density, 5) THEN 3 ELSE 0)
                  + (IF Gt(f.income_level, 75) THEN 2 ELSE 0)
                  + (IF Gt(f.ev_adoption_rate, 20) THEN 4 ELSE 0)
                  + (IF Lt(f.competition_score, 3) THEN 2 ELSE 0)
                  + (IF Gt(f.government_subsidy, 0) THEN 3 ELSE 0)
         IN  Ok(MinNum(Num(b), Num(35)))

\* calculate_fallback_roi crediting EV adoption with 3
calculate_fallback_roi_ev3(f) ==
    IF \E k \in {"traffic_density", "income_level", "ev_adoption_rate",
                 "competition_score", "government_subsidy"} : ~IsNumeric(f[k])
    THEN Raise("TypeError")
    ELSE LET b == 12
                  + (IF Gt(f.traffic_density, 5) THEN 3 ELSE 0)
                  + (IF Gt(f.income_level, 75) THEN 2 ELSE 0)
                  + (IF Gt(f.ev_adoption_rate, 20) THEN 3 ELSE 0)
                  + (IF Lt(f.competition_score, 3) THEN 2 ELSE 0)
                  + (IF Gt(f.government_subsidy, 0) THEN 3 ELSE 0)
         IN  Ok(MinNum(Num(b), Num(35)))

\* raises TypeError when a compared feature is not a number
calculate_fallback_roi(f) ==
    IF \E k \in {"traffic_density", "income_level", "ev_adoption_rate",
                 "competition_score", "government_subsidy"} : ~IsNumeric(f[k])
    THEN Raise("TypeError")
    ELSE LET b == 12
                  + (IF Gt(f.traffic_density, 5) THEN 3 ELSE 0)
                  + (IF Gt(f.income_level, 75) THEN 2 ELSE 0)
                  + (IF Gt(f.ev_adoption_rate, 20) THEN 4 ELSE 0)
                  + (IF Lt(f.competition_score, 3) THEN 2 ELSE 0)
                  + (IF Gt(f.government_subsidy, 0) THEN 3 ELSE 0)
         IN  Ok(MinNum(Num(b), Num(35)))

Flag(ld, key) == Truthy(Get(ld, key, BoolV(FALSE)))

\* adjust_roi without the floor of 5
adjust_roi_nofloor(base, ld) ==
    LET adjusted == (IF Flag(ld, "fast_charging") THEN 5 ELSE 0)
                    + (IF Flag(ld, "solar_powered") THEN 3 ELSE 0)
                    + (IF Flag(ld, "amenities") THEN 2 ELSE 0)
                    - (IF Flag(ld, "high_competition") THEN 4 ELSE 0)
                    - (IF Flag(ld, "high_land_cost") THEN 3 ELSE 0)
    IN  Plus(base, adjusted)

\* adjust_roi adding the two penalties instead of subtracting them
adjust_roi_signflip(base, ld) ==
    LET adjusted == (IF Flag(ld, "fast_charging") THEN 5 ELSE 0)
                    + (IF Flag(ld, "solar_powered") THEN 3 ELSE 0)
                    + (IF Flag(ld, "amenities") THEN 2 ELSE 0)
                    + (IF Flag(ld, "high_competition") THEN 4 ELSE 0)
                    + (IF Flag(ld, "high_land_cost") THEN 3 ELSE 0)
    IN  MaxNum(Plus(base, adjusted), Num(5))

\* adjust_roi with the floor at 0
adjust_roi_floor0(base, ld) ==
    LET adjusted == (IF Flag(ld, "fast_charging") THEN 5 ELSE 0)
                    + (IF Flag(ld, "solar_powered") THEN 3 ELSE 0)
                    + (IF Flag(ld, "amenities") THEN 2 ELSE 0)
                    - (IF Flag(ld, "high_competition") THEN 4 ELSE 0)
                    - (IF Flag(ld, "high_land_cost") THEN 3 ELSE 0)
    IN  MaxNum(Plus(base, adjusted), Num(0))

\* adjust_roi crediting fast charging with 4
adjust_roi_fast4(base, ld) ==
    LET adjusted == (IF Flag(ld, "fast_charging") THEN 4 ELSE 0)
                    + (IF Flag(ld, "solar_powered") THEN 3 ELSE 0)
                    + (IF Flag(ld, "amenities") THEN 2 ELSE 0)
                    - (IF Flag(ld, "high_competition") THEN 4 ELSE 0)
                    - (IF Flag(ld, "high_land_cost") THEN 3 ELSE 0)
    IN  MaxNum(Plus(base, adjusted), Num(5))

adjust_roi(base, ld) ==
    LET adjusted == (IF Flag(ld, "fast_charging") THEN 5 ELSE 0)
                    + (IF Flag(ld, "solar_powered") THEN 3 ELSE 0)
                    + (IF Flag(ld, "amenities") THEN 2 ELSE 0)
                    - (IF Flag(ld, "high_competition") THEN 4 ELSE 0)
                    - (IF Flag(ld, "high_land_cost") THEN 3 ELSE 0)
    IN  MaxNum(Plus(base, adjusted), Num(5))

calculate_payback_period(annual_roi) ==
    IF Le(annual_roi, 0) THEN Inf ELSE Frac(100 * annual_roi.d, annual_roi.n)

\* calculate_break_even counting weeks
calculate_break_even_weeks(annual_roi) ==
    LET payback_years == calculate_payback_period(annual_roi)
    IN  IF payback_years.kind = "inf" THEN Inf ELSE Times(payback_years, 52)

calculate_break_even(annual_roi) ==
    LET payback_years == calculate_payback_period(annual_roi)
    IN  IF payback_years.kind = "inf" THEN Inf ELSE Times(payback_years, 12)

\* estimate_revenue defaulting ev_adoption to 0 as the features do
estimate_revenue_ev0(ld) ==
    LET vehicles == Get(ld, "daily_vehicles", Num(1000))
        ev_rate == Get(ld, "ev_adoption", Num(0))
    IN  IF ~IsNumeric(vehicles) \/ ~IsNumeric(ev_rate)
        THEN Raise("TypeError")
        ELSE Ok(Trunc(50000 * (vehicles.d * ev_rate.d * 1000)
                        + vehicles.n * ev_rate.n * 365 * 15,
                      vehicles.d * ev_rate.d * 1000))

\* 50000 + vehicles * (ev_rate / 100) * 0.1 * 365 * 15, truncated;
\* raises TypeError when either attribute is not a number
estimate_revenue(ld) ==
    LET vehicles == Get(ld, "daily_vehicles", Num(1000))
        ev_rate == Get(ld, "ev_adoption", Num(5))
    IN  IF ~IsNumeric(vehicles) \/ ~IsNumeric(ev_rate)
        THEN Raise("TypeError")
        ELSE Ok(Trunc(50000 * (vehicles.d * ev_rate.d * 1000)
                        + vehicles.n * ev_rate.n * 365 * 15,
                      vehicles.d * ev_rate.d * 1000))

\* the failure default with the derived fields computed from its ROI
DefaultRoiResult_derived ==
    [annual_roi |-> Num(15), payback_period |-> Frac(100, 15),
     break_even_months |-> Num(80), estimated_annual_revenue |-> 120000]

DefaultRoiResult ==
    [annual_roi |-> Num(15), payback_period |-> Frac(67, 10),
     break_even_months |-> Num(80), estimated_annual_revenue |-> 120000]

\* base_roi of predict_roi: the registry lookup, then the trained model or the formula
predict_base_roi(m, f) ==
    IF "roi_predictor" \notin DOMAIN m THEN Raise("KeyError")
    ELSE IF m["roi_predictor"] # FallbackRoi
         THEN IF m["roi_predictor"].raises \/ ~NumericArray(f)
              THEN Raise("XGBoostError")
              ELSE Ok(m["roi_predictor"].out)
         ELSE calculate_fallback_roi(f)

\* lines 156-161: the result returned when nothing raised
roi_result(adjusted_roi, revenue) ==
    [annual_roi |-> adjusted_roi,
     payback_period |-> calculate_payback_period(adjusted_roi),
     break_even_months |-> calculate_break_even(adjusted_roi),
     estimated_annual_revenue |-> revenue]

\* the try block of predict_roi given the outcomes of its two calls that can
\* raise, and the except block
roi_try(base, revenue, ld) ==
    IF ~base.ok \/ ~revenue.ok
    THEN DefaultRoiResult
    ELSE roi_result(adjust_roi(base.v, ld), revenue.v)

predict_roi(m, f, ld) == roi_try(predict_base_roi(m, f), estimate_revenue(ld), ld)

---------------------------------------------------------------------------
(* Location classification *)

KnownClusterIds == {0, 1, 2, 3, 4}

cluster_types ==
    [c \in KnownClusterIds |->
        CASE c = 0 -> "Premium Urban - High traffic, high income"
          [] c = 1 -> "Commercial Hub - Shopping centers, offices"
          [] c = 2 -> "Residential Area - Steady local traffic"
          [] c = 3 -> "Highway Corridor - Travel and transit focus"
          [] c = 4 -> "Developing Area - Growth potential"]

get_cluster_description(cluster_id) ==
    CASE cluster_id = 0 -> "Excellent location with high EV adoption potential and premium pricing capability"
      [] cluster_id = 1 -> "Strong commercial traffic with good revenue potential during business hours"
      [] cluster_id = 2 -> "Consistent residential usage with potential for loyalty programs"
      [] cluster_id = 3 -> "High-volume transient traffic, ideal for fast charging stations"
      [] cluster_id = 4 -> "Emerging area with growth potential, lower initial returns but high future upside"
      [] OTHER -> "Standard location with balanced potential"

\* the failure default carrying an id outside the table
DefaultClusterResult_unknown ==
    [cluster_id |-> -1, cluster_name |-> "Standard Commercial",
     description |-> "Balanced location with moderate potential"]

DefaultClusterResult ==
    [cluster_id |-> 2, cluster_name |-> "Standard Commercial",
     description |-> "Balanced location with moderate potential"]

\* classify with a fallback KMeans that was fitted and answers cluster 0
classify_fitted(m, f) ==
    IF "location_cluster" \notin DOMAIN m THEN Raise("KeyError")
    ELSE IF m["location_cluster"].type = "KMeans"
         THEN IF ~NumericArray(f) THEN Raise("ValueError") ELSE Ok(0)
         ELSE IF m["location_cluster"].raises \/ ~NumericArray(f)
              THEN Raise("ValueError")
              ELSE Ok(m["location_cluster"].out)

\* self.models['location_cluster'].predict(feature_array)[0]
classify(m, f) ==
    IF "location_cluster" \notin DOMAIN m THEN Raise("KeyError")
    ELSE IF m["location_cluster"].type = "KMeans"
         THEN Raise("NotFittedError")
         ELSE IF m["location_cluster"].raises \/ ~NumericArray(f)
              THEN Raise("ValueError")
              ELSE Ok(m["location_cluster"].out)

\* lines 224-228: the result for the id the classifier returned
cluster_result(cluster) ==
    [cluster_id |-> cluster,
     cluster_name |-> IF cluster \in DOMAIN cluster_types
                      THEN cluster_types[cluster] ELSE "Unknown",
     description |-> get_cluster_description(cluster)]

\* cluster_try answering a failure from the tables instead of the default
cluster_try_tables(cluster) ==
    IF ~cluster.ok THEN cluster_result(2) ELSE cluster_result(cluster.v)

\* the try block of predict_location_cluster given the outcome of the
\* classifier call, and the except block
cluster_try(cluster) ==
    IF ~cluster.ok THEN DefaultClusterResult ELSE cluster_result(cluster.v)

predict_location_cluster(m, f) == cluster_try(classify(m, f))

---------------------------------------------------------------------------
(* Recommendations and scoring *)

\* RoiMessage with inclusive thresholds
RoiMessage_inclusive(roi) ==
    IF Ge(roi, 25) THEN "Premium Investment"
    ELSE IF Ge(roi, 15) THEN "Strong Investment"
    ELSE IF Ge(roi, 8) THEN "Moderate Investment"
    ELSE "Evaluate Carefully"

RoiMessage(roi) ==
    IF Gt(roi, 25) THEN "Premium Investment"
    ELSE IF Gt(roi, 15) THEN "Strong Investment"
    ELSE IF Gt(roi, 8) THEN "Moderate Investment"
    ELSE "Evaluate Carefully"

ClusterMessages(cluster_id) ==
    CASE cluster_id = 0 -> <<"Install DC Fast Chargers", "Add Lounge Amenities">>
      [] cluster_id = 1 -> <<"Partner with Retailers", "Focus on Business Hours">>
      [] cluster_id = 3 -> <<"Ultra-Fast Charging", "Add Food Services">>
      [] OTHER -> <<>>

\* raises TypeError when solar_potential or ev_adoption is not a number
generate_station_recommendations(roi, cluster, ld) ==
    LET solar == Get(ld, "solar_potential", Num(0))
        ev == Get(ld, "ev_adoption", Num(0))
    IN  IF ~IsNumeric(solar) \/ ~IsNumeric(ev)
        THEN Raise("TypeError")
        ELSE Ok(<<RoiMessage(roi.annual_roi)>>
                \o ClusterMessages(cluster.cluster_id)
                \o (IF Gt(solar, 70) THEN <<"Add Solar Canopy">> ELSE <<>>)
                \o (IF Lt(ev, 10) THEN <<"Community Education">> ELSE <<>>))

cluster_scores(cluster_id) ==
    CASE cluster_id = 0 -> 45
      [] cluster_id = 1 -> 40
      [] cluster_id = 2 -> 30
      [] cluster_id = 3 -> 35
      [] cluster_id = 4 -> 25
      [] OTHER -> 20

calculate_viability_score(roi, cluster) ==
    LET roi_score == MinNum(Times(roi.annual_roi, 2), Num(50))
        cluster_score == cluster_scores(cluster.cluster_id)
    IN  MinNum(Plus(roi_score, cluster_score), Num(100))

\* get_investment_grade with strict thresholds
get_investment_grade_strict(roi) ==
    IF Gt(roi, 25) THEN "A+ (Excellent)"
    ELSE IF Gt(roi, 20) THEN "A (Very Good)"
    ELSE IF Gt(roi, 15) THEN "B+ (Good)"
    ELSE IF Gt(roi, 10) THEN "B (Average)"
    ELSE IF Gt(roi, 5) THEN "C (Fair)"
    ELSE "D (Poor)"

get_investment_grade(roi) ==
    IF Ge(roi, 25) THEN "A+ (Excellent)"
    ELSE IF Ge(roi, 20) THEN "A (Very Good)"
    ELSE IF Ge(roi, 15) THEN "B+ (Good)"
    ELSE IF Ge(roi, 10) THEN "B (Average)"
    ELSE IF Ge(roi, 5) THEN "C (Fair)"
    ELSE "D (Poor)"

get_risk_level(roi) ==
    IF Ge(roi, 20) THEN "Low Risk"
    ELSE IF Ge(roi, 12) THEN "Moderate Risk"
    ELSE IF Ge(roi, 8) THEN "High Risk"
    ELSE "Very High Risk"

---------------------------------------------------------------------------
(* The orchestrator *)

\* str(e) and the f-strings of the handlers: a text and the values formatted into it
Msg(text) == [text |-> text, args |-> <<>>]
MsgWith(text, args) == [text |-> text, args |-> args]

ErrorResult(e) == [error |-> Msg(e)]

\* lines 98-104: the result assembled from the stage outputs
assemble_result(roi, cluster, recommendations) ==
    [predictions |-> [roi |-> roi, location_type |-> cluster],
     recommendations |-> recommendations,
     viability_score |-> calculate_viability_score(roi, cluster),
     investment_grade |-> get_investment_grade(roi.annual_roi),
     risk_level |-> get_risk_level(roi.annual_roi)]

\* viability_result answering a failure of the rules with an empty list
viability_result_partial(roi, cluster, recs) ==
    IF ~recs.ok THEN assemble_result(roi, cluster, <<>>) ELSE assemble_result(roi, cluster, recs.v)

\* lines 94-106 given the recommendations or the exception of their rules
viability_result(roi, cluster, recs) ==
    IF ~recs.ok THEN ErrorResult(recs.v) ELSE assemble_result(roi, cluster, recs.v)

\* lines 93-106 given the two predictions
viability_of_predictions(roi, cluster, ld) ==
    viability_result(roi, cluster, generate_station_recommendations(roi, cluster, ld))

\* lines 83-106 given the features or the exception of their construction
viability_of_features(m, f, ld) ==
    IF ~f.ok THEN ErrorResult(f.v)
    ELSE viability_of_predictions(predict_roi(m, f.v, ld), predict_location_cluster(m, f.v), ld)

predict_ev_station_viability(m, ld) ==
    IF ~IsMapping(ld) THEN ErrorResult("AttributeError")
    ELSE viability_of_features(m, prepare_ev_features(ld), ld)

\* a pipeline that registers the fallback ROI marker when it finds no ROI entry
models_after_predict_lazyroi(m, ld) ==
    IF "roi_predictor" \in DOMAIN m THEN m ELSE create_fallback_roi_model(m)

\* a pipeline that registers the fallback classifier when it finds no classifier entry
models_after_predict_lazycluster(m, ld) ==
    IF "location_cluster" \in DOMAIN m THEN m ELSE create_fallback_cluster_model(m)

\* self.models after predict_ev_station_viability(ld): the pipeline, lines
\* 75-330, only reads self.models; the two create_fallback_* writers are
\* called from load_essential_models alone
models_after_predict(m, ld) == m

\* self.models after the calls of one handler, in order
RECURSIVE models_after_calls(_, _)
models_after_calls(m, cs) ==
    IF cs = <<>> THEN m ELSE models_after_calls(models_after_predict(m, Head(cs)), Tail(cs))

---------------------------------------------------------------------------
(* The HTTP handlers *)

required_fields == <<"daily_vehicles", "population_density", "avg_income">>

\* dict with the entries of d and those of e, the latter winning
Update(d, e) == [k \in DOMAIN d \cup DOMAIN e |-> IF k \in DOMAIN e THEN e[k] ELSE d[k]]

Now == "now"

\* the handlers return [status, body] and, beside it, the arguments of the
\* calls of predict_ev_station_viability they made, in order

\* predict_ev_station reporting the required fields in place of the missing ones
predict_ev_station_required(m, body) ==
    IF DOMAIN body = {}
    THEN [status |-> 400, body |-> [error |-> Msg("No location data provided")], calls |-> <<>>]
    ELSE LET missing_fields == SelectSeq(required_fields, LAMBDA field : field \notin DOMAIN body)
         IN  IF missing_fields # <<>>
             THEN [status |-> 400,
                   body |-> [error |-> MsgWith("Missing required fields", required_fields),
                             required_fields |-> required_fields],
                   calls |-> <<>>]
             ELSE [status |-> 200,
                   body |-> Update(predict_ev_station_viability(m, body),
                                   [timestamp |-> Now,
                                    location_name |-> Get(body, "location_name", StrV("Unknown Location")),
                                    analysis_id |-> Now]),
                   calls |-> <<body>>]

\* POST /predict, lines 95-122, for a JSON object as body
predict_ev_station(m, body) ==
    IF DOMAIN body = {}
    THEN [status |-> 400, body |-> [error |-> Msg("No location data provided")], calls |-> <<>>]
    ELSE LET missing_fields == SelectSeq(required_fields, LAMBDA field : field \notin DOMAIN body)
         IN  IF missing_fields # <<>>
             THEN [status |-> 400,
                   body |-> [error |-> MsgWith("Missing required fields", missing_fields),
                             required_fields |-> required_fields],
                   calls |-> <<>>]
             ELSE [status |-> 200,
                   body |-> Update(predict_ev_station_viability(m, body),
                                   [timestamp |-> Now,
                                    location_name |-> Get(body, "location_name", StrV("Unknown Location")),
                                    analysis_id |-> Now]),
                   calls |-> <<body>>]

LocationDefault(i) == StrV("Location_" \o ToString(i))

\* one iteration of the loop of batch_analyze, lines 145-155: the entry appended,
\* or the exception that leaves the loop (location.get fails in the try block
\* and again in the except block)
batch_item(m, i, location) ==
    IF ~IsMapping(location)
    THEN Raise("AttributeError")
    ELSE Ok(Update(predict_ev_station_viability(m, location),
                   [location_index |-> i,
                    location_name |-> Get(location, "location_name", LocationDefault(i))]))

\* the loop of batch_analyze given the outcome of each iteration: [ok, v, calls],
\* v the results or the exception of the first iteration that raises, calls the
\* records reached
loop_outcome(locations, items) ==
    LET failing == {i \in DOMAIN locations : ~items[i].ok}
    IN  IF failing = {}
        THEN [ok |-> TRUE, v |-> [i \in DOMAIN locations |-> items[i].v], calls |-> locations]
        ELSE LET first == CHOOSE i \in failing : \A j \in failing : i <= j
             IN  [ok |-> FALSE, v |-> items[first].v, calls |-> SubSeq(locations, 1, first)]

batch_loop(m, locations) ==
    loop_outcome(locations, [i \in DOMAIN locations |-> batch_item(m, i - 1, locations[i])])

\* lines 157-166: the response for the outcome of the loop
batch_response(locations, loop) ==
    IF ~loop.ok
    THEN [status |-> 500, body |-> [error |-> Msg(loop.v)], calls |-> loop.calls]
    ELSE [status |-> 200,
          body |-> [batch_id |-> Now,
                    total_locations |-> Len(locations),
                    successful_analysis |->
                        Cardinality({j \in DOMAIN loop.v : "error" \notin DOMAIN loop.v[j]}),
                    results |-> loop.v,
                    timestamp |-> Now],
          calls |-> loop.calls]

\* POST /batch_analyze, lines 138-166, for a JSON object as body
batch_analyze(m, data) ==
    IF DOMAIN data = {} \/ "locations" \notin DOMAIN data
    THEN [status |-> 400, body |-> [error |-> Msg("No locations data provided")], calls |-> <<>>]
    ELSE batch_response(data.locations, batch_loop(m, data.locations))

---------------------------------------------------------------------------
(* Inputs *)

Absent == [kind |-> "absent"]

\* the dictionary holding the attributes that were given a value
MkDict(c) == [k \in {a \in DOMAIN c : c[a] # Absent} |-> c[k]]

FlagNames == {"fast_charging", "solar_powered", "amenities", "high_competition", "high_land_cost"}

\* records given to the pipeline: every attribute the pipeline branches on,
\* on both sides of its threshold, absent, and (where it can raise) not a number
Records ==
    { MkDict([daily_vehicles |-> dv, population_density |-> Num(8500), avg_income |-> ai,
              ev_adoption |-> ev, competition |-> co, subsidy_available |-> su,
              solar_potential |-> so,
              fast_charging |-> IF "fast_charging" \in fl THEN BoolV(TRUE) ELSE Absent,
              solar_powered |-> IF "solar_powered" \in fl THEN BoolV(TRUE) ELSE BoolV(FALSE),
              amenities |-> IF "amenities" \in fl THEN BoolV(TRUE) ELSE Absent,
              high_competition |-> IF "high_competition" \in fl THEN BoolV(TRUE) ELSE BoolV(FALSE),
              high_land_cost |-> IF "high_land_cost" \in fl THEN BoolV(TRUE) ELSE Absent]) :
        dv \in {Absent, Num(0), Num(15000), StrV("n/a")},
        ai \in {Absent, Num(50000), Num(85000)},
        ev \in {Absent, Num(0), Num(15), Num(25), StrV("n/a")},
        co \in {Absent, Num(5)},
        su \in {Absent, Num(30)},
        so \in {Absent, Num(75)},
        fl \in SUBSET FlagNames }

\* bodies posted to /predict
ServiceRecords ==
    { MkDict([daily_vehicles |-> dv, population_density |-> pd, avg_income |-> ai,
              location_name |-> nm, fast_charging |-> fc]) :
        dv \in {Absent, Num(15000), StrV("n/a")},
        pd \in {Absent, Num(8500)},
        ai \in {Absent, Num(85000)},
        nm \in {Absent, StrV("Site A")},
        fc \in {Absent, BoolV(TRUE)} }

GoodRecord == MkDict([daily_vehicles |-> Num(15000), population_density |-> Num(8500),
                      avg_income |-> Num(85000), location_name |-> StrV("Site A")])
MissingIncome == MkDict([daily_vehicles |-> Num(15000), population_density |-> Num(8500)])
BadTraffic == MkDict([daily_vehicles |-> StrV("n/a"), population_density |-> Num(8500),
                      avg_income |-> Num(85000), location_name |-> StrV("Site B")])
NotAMapping == StrV("Site C")

BatchItems == {GoodRecord, MissingIncome, BadTraffic, NotAMapping}

FastRecord == Update(GoodRecord, [fast_charging |-> BoolV(TRUE), ev_adoption |-> Num(25)])
BadAdoption == Update(GoodRecord, [ev_adoption |-> StrV("n/a")])

\* records analysed again and again
RepeatRecords == {GoodRecord, FastRecord, BadTraffic, BadAdoption}

\* the lists over S of length n, and of length at most n
RECURSIVE SeqsOfLen(_, _)
SeqsOfLen(S, n) ==
    IF n = 0 THEN {<<>>} ELSE {Append(l, x) : l \in SeqsOfLen(S, n - 1), x \in S}

SeqsUpTo(S, n) == UNION {SeqsOfLen(S, k) : k \in 0..n}

\* bodies posted to /batch_analyze
BatchBodies ==
    {EmptyDict, [location |-> GoodRecord]}
    \cup {[locations |-> l] : l \in SeqsUpTo(BatchItems, MaxBatch)}

---------------------------------------------------------------------------
(* The state machine *)

\* the process before EVStationPredictor is constructed, with the two
\* artifact files as the deployment left them
InitWith(xgbFiles, clusterFiles) ==
    /\ phase = "init"
    /\ xgb_file \in xgbFiles
    /\ cluster_file \in clusterFiles
    /\ models = NoModels
    /\ request = None
    /\ response = None
    /\ calls = <<>>
    /\ pc = "idle"
    /\ location_data = None
    /\ features = None
    /\ base_roi = None
    /\ roi_prediction = None
    /\ cluster_prediction = None
    /\ result = None
    /\ history = EmptyDict
    /\ repeat = FALSE

\* for the service, each file absent, unreadable, or holding a model that
\* fails at prediction time or one that answers
Init ==
    InitWith({AbsentFile, CorruptFile, ValidFile(TRUE, Num(0)), ValidFile(FALSE, Num(MaxTrainedRoi))},
             {AbsentFile, CorruptFile, ValidFile(TRUE, 0), ValidFile(FALSE, MaxTrainedCluster)})

InitPipeline == InitWith(XgbFiles, ClusterFiles)

\* EVStationPredictor('models'): __init__ and load_ev_models
Startup ==
    /\ phase = "init"
    /\ models' = load_essential_models(models, xgb_file, cluster_file)
    /\ phase' = "ready"
    /\ UNCHANGED <<xgb_file, cluster_file, request, response, calls>>
    /\ UNCHANGED pipeVars
    /\ UNCHANGED repeatVars

\* the handler's answer r to the body posted to the endpoint
Respond(endpoint, body, r) ==
    /\ request' = [endpoint |-> endpoint, body |-> body]
    /\ response' = [status |-> r.status, body |-> r.body]
    /\ calls' = r.calls
    /\ models' = models_after_calls(models, r.calls)

\* POST /predict
Predict ==
    /\ phase = "ready"
    /\ \E body \in ServiceRecords : Respond("/predict", body, predict_ev_station(models, body))
    /\ UNCHANGED <<phase, xgb_file, cluster_file>>
    /\ UNCHANGED pipeVars
    /\ UNCHANGED repeatVars

\* POST /batch_analyze
BatchAnalyze ==
    /\ phase = "ready"
    /\ \E data \in BatchBodies : Respond("/batch_analyze", data, batch_analyze(models, data))
    /\ UNCHANGED <<phase, xgb_file, cluster_file>>
    /\ UNCHANGED pipeVars
    /\ UNCHANGED repeatVars

\* predict_ev_station_viability on ld, f its features: the locals and the result
Run(ld, f) ==
    /\ location_data' = ld
    /\ features' = f
    /\ base_roi' = IF f.ok THEN predict_base_roi(models, f.v) ELSE None
    /\ roi_prediction' = IF f.ok THEN predict_roi(models, f.v, ld) ELSE None
    /\ cluster_prediction' = IF f.ok THEN predict_location_cluster(models, f.v) ELSE None
    /\ result' = predict_ev_station_viability(models, ld)
    /\ models' = models_after_predict(models, ld)

\* one run of predict_ev_station_viability, with the values of its locals
Analyze ==
    /\ phase = "ready"
    /\ pc = "idle"
    /\ \E ld \in Records : Run(ld, prepare_ev_features(ld))
    /\ pc' = "done"
    /\ UNCHANGED <<phase, xgb_file, cluster_file, request, response, calls>>
    /\ UNCHANGED repeatVars

\* history with the output of the first run on ld added
Remember(h, ld, out) == [k \in DOMAIN h \cup {ld} |-> IF k \in DOMAIN h THEN h[k] ELSE out]

\* one more run of predict_ev_station_viability, on a record seen before or not
Call ==
    /\ phase = "ready"
    /\ \E ld \in RepeatRecords :
          /\ Run(ld, prepare_ev_features(ld))
          /\ repeat' = (ld \in DOMAIN history)
          /\ history' = Remember(history, ld, predict_ev_station_viability(models, ld))
    /\ pc' = "done"
    /\ UNCHANGED <<phase, xgb_file, cluster_file, request, response, calls>>

Next == Startup \/ Predict \/ BatchAnalyze

Spec == Init /\ [][Next]_vars

NextPipeline == Startup \/ Analyze

SpecPipeline == InitPipeline /\ [][NextPipeline]_vars

NextRepeat == Startup \/ Call

SpecRepeat == Init /\ [][NextRepeat]_vars

---------------------------------------------------------------------------
(* Properties of the pipeline, checked under SpecPipeline *)

HasMandatory(ld) ==
    IsMapping(ld) /\ \A i \in DOMAIN required_fields : required_fields[i] \in DOMAIN ld

\* some attribute the pipeline computes with is present and not a number
HasNonNumeric(ld) ==
    \E k \in {"daily_vehicles", "avg_income", "land_cost", "solar_potential", "ev_adoption"} :
        k \in DOMAIN ld /\ ~IsNumeric(ld[k])

Analyzed == pc = "done"

\* C1: for every record with the three mandatory fields and every registry,
\* the result carries a viability_score between 0 and 100; the only results
\* without a score are the error results of records with a non-numeric attribute.
C1_ViabilityScoreInRange ==
    (Analyzed /\ HasMandatory(location_data)) =>
        IF "error" \in DOMAIN result
        THEN HasNonNumeric(location_data)
        ELSE Ge(result.viability_score, 0) /\ Le(result.viability_score, 100)

\* a valid record scored at the top of the reachable range
C1_Witness ==
    /\ Analyzed /\ HasMandatory(location_data)
    /\ "error" \notin DOMAIN result
    /\ NumEq(result.viability_score, Num(95))

OnFallbackRoi ==
    Analyzed /\ "roi_predictor" \in DOMAIN models /\ models["roi_predictor"] = FallbackRoi
    /\ roi_prediction # None

\* C2 as stated: with the fallback ROI estimator the returned annual_roi lies in [5, 35].
C2_FallbackRoiWithin5And35 ==
    OnFallbackRoi => Ge(roi_prediction.annual_roi, 5) /\ Le(roi_prediction.annual_roi, 35)

\* C2 as amended: with the fallback ROI estimator the returned annual_roi lies
\* in [5, 36], for every combination of the five adjustment flags.
C2_FallbackRoiWithin5And36 ==
    OnFallbackRoi => Ge(roi_prediction.annual_roi, 5) /\ Le(roi_prediction.annual_roi, 36)

\* every formula increment and the three bonuses, no penalty
C2_Witness ==
    /\ OnFallbackRoi
    /\ base_roi.ok /\ NumEq(base_roi.v, Num(26))
    /\ NumEq(roi_prediction.annual_roi, Num(36))

\* C3: on the fallback path the base ROI of calculate_fallback_roi lies in
\* [12, 35] and the ROI after adjust_roi is at least 5, whatever the flags.
C3_FallbackBaseAndFloor ==
    (OnFallbackRoi /\ base_roi.ok) =>
        /\ Ge(base_roi.v, 12) /\ Le(base_roi.v, 35)
        /\ Ge(roi_prediction.annual_roi, 5)

\* the lowest base with both penalties: 12 - 4 - 3
C3_Witness ==
    /\ OnFallbackRoi /\ base_roi.ok
    /\ NumEq(base_roi.v, Num(12))
    /\ Flag(location_data, "high_competition") /\ Flag(location_data, "high_land_cost")
    /\ NumEq(roi_prediction.annual_roi, Num(5))

Classified == Analyzed /\ cluster_prediction # None

\* the registered classifier is a trained model that answers with an id outside the table
TrainedReturnsUnknownId ==
    /\ "location_cluster" \in DOMAIN models
    /\ models["location_cluster"].type = "Pickled"
    /\ ~models["location_cluster"].raises
    /\ models["location_cluster"].out \notin KnownClusterIds
    /\ features.ok /\ NumericArray(features.v)

\* the classifier invocation raised: no entry, the unfitted KMeans, a model that
\* raises, or a feature matrix that is not numeric
ClassifierFailed ==
    \/ "location_cluster" \notin DOMAIN models
    \/ models["location_cluster"].type = "KMeans"
    \/ models["location_cluster"].raises
    \/ ~NumericArray(features.v)

---------------------------------------------------------------------------
(* Properties of the service, checked under Spec *)

IsBatch ==
    /\ "endpoint" \in DOMAIN request
    /\ request.endpoint = "/batch_analyze"
    /\ "locations" \in DOMAIN request.body

IsPredict == "endpoint" \in DOMAIN request /\ request.endpoint = "/predict"

BatchHasResults == response.status = 200 /\ "results" \in DOMAIN response.body

MissingFields(ld) == {required_fields[i] : i \in DOMAIN required_fields} \ DOMAIN ld

Range(seq) == {seq[i] : i \in DOMAIN seq}

\* C6: in a batch every record that lacks a mandatory field yields an entry
\* with an error and its own location_index, and is not counted in
\* successful_analysis.
C6_MissingMandatoryIsItemError ==
    (IsBatch /\ BatchHasResults) =>
        LET locations == request.body.locations
            results == response.body.results
        IN  /\ \A i \in DOMAIN locations :
                  (IsMapping(locations[i]) /\ ~HasMandatory(locations[i])) =>
                      /\ i \in DOMAIN results
                      /\ "error" \in DOMAIN results[i]
                      /\ results[i].location_index = i - 1
            /\ response.body.successful_analysis
                  <= Cardinality({i \in DOMAIN locations : HasMandatory(locations[i])})

\* C7: the batch response has as many results as locations, total_locations
\* equal to that number, and successful_analysis equal to the number of results
\* without an error field.
C7_BatchCounts ==
    IsBatch =>
        /\ "results" \in DOMAIN response.body
        /\ Len(response.body.results) = Len(request.body.locations)
        /\ response.body.total_locations = Len(request.body.locations)
        /\ response.body.successful_analysis =
              Cardinality({i \in DOMAIN response.body.results :
                              "error" \notin DOMAIN response.body.results[i]})

\* C8: no record aborts the batch: the i-th entry always exists with
\* location_index i and a location name, and every record is processed, in
\* input order.
C8_FailureNeverAbortsBatch ==
    IsBatch =>
        /\ BatchHasResults
        /\ \A i \in DOMAIN request.body.locations :
              /\ i \in DOMAIN response.body.results
              /\ response.body.results[i].location_index = i - 1
              /\ "location_name" \in DOMAIN response.body.results[i]
        /\ calls = request.body.locations

\* C9 as stated: a /predict record lacking a mandatory field is answered with a
\* validation error listing exactly the missing fields, the pipeline not invoked.
C9_MissingFieldsListed ==
    (IsPredict /\ ~HasMandatory(request.body)) =>
        /\ response.status = 400
        /\ response.body.error.text = "Missing required fields"
        /\ Range(response.body.error.args) = MissingFields(request.body)
        /\ calls = <<>>

\* C9 as amended: a non-empty /predict record lacking a mandatory field is
\* answered with a validation error listing exactly the missing fields; the
\* record with no fields at all is answered with "No location data provided",
\* which lists no field; in both cases the pipeline is not invoked.
C9_MissingFieldsListedUnlessEmpty ==
    (IsPredict /\ ~HasMandatory(request.body)) =>
        /\ response.status = 400
        /\ calls = <<>>
        /\ IF DOMAIN request.body = {}
           THEN response.body.error = Msg("No location data provided")
           ELSE /\ response.body.error.text = "Missing required fields"
                /\ Range(response.body.error.args) = MissingFields(request.body)
                /\ Len(response.body.error.args) = Cardinality(MissingFields(request.body))

\* the scenario of the specification: only avg_income missing
C9_Witness ==
    /\ IsPredict
    /\ MissingFields(request.body) = {"avg_income"}
    /\ response.status = 400
    /\ response.body.error.args = <<"avg_income">>

\* C10: after startup each registry slot holds the trained artifact when its
\* file loads and the fallback when the file is absent or fails to load.
C10_RegistryTrainedOrFallback ==
    phase = "ready" =>
        /\ "roi_predictor" \in DOMAIN models
        /\ models["roi_predictor"] =
              (IF xgb_file.state = "valid" THEN Booster(xgb_file) ELSE FallbackRoi)
        /\ "location_cluster" \in DOMAIN models
        /\ models["location_cluster"] =
              (IF cluster_file.state = "valid" THEN Pickled(cluster_file) ELSE UnfittedKMeans)

---------------------------------------------------------------------------
(* Properties of the ROI estimator and of the orchestrator, checked under  *)
(* SpecPipeline                                                            *)

\* the invocation of the ROI model raised: no entry, a trained model that
\* raises, a feature matrix that is not numeric, or the formula comparing a
\* value that is not a number
RoiInvocationFailed == Analyzed /\ features.ok /\ ~base_roi.ok

\* the two attributes the recommendation rules compare are numbers
RecommendationInputsNumeric(ld) ==
    \A k \in {"solar_potential", "ev_adoption"} : k \in DOMAIN ld => IsNumeric(ld[k])

FullResultKeys ==
    {"predictions", "recommendations", "viability_score", "investment_grade", "risk_level"}

\* C11 as stated: when the ROI model invocation raises, predict_roi returns the
\* fixed default (15, 6.7, 80, 120000) whatever the record, and the enclosing
\* call returns a full result without an error.
C11_RoiFailureDefaultAndFullResult ==
    RoiInvocationFailed =>
        /\ roi_prediction = [annual_roi |-> Num(15), payback_period |-> Frac(67, 10),
                             break_even_months |-> Num(80), estimated_annual_revenue |-> 120000]
        /\ DOMAIN result = FullResultKeys

\* C11 as amended: when the ROI model invocation raises, predict_roi returns the
\* fixed default (15, 6.7, 80, 120000) whatever the record; the enclosing call
\* returns a full result carrying that default, unless solar_potential or
\* ev_adoption of the record is not a number, in which case the recommendation
\* rules raise and the call returns an error result.
C11_RoiFailureDefault ==
    RoiInvocationFailed =>
        /\ roi_prediction = [annual_roi |-> Num(15), payback_period |-> Frac(67, 10),
                             break_even_months |-> Num(80), estimated_annual_revenue |-> 120000]
        /\ IF RecommendationInputsNumeric(location_data)
           THEN DOMAIN result = FullResultKeys /\ result.predictions.roi = roi_prediction
           ELSE DOMAIN result = {"error"}

\* a trained model that raises, on a record with an adjustment flag set
C11_Witness ==
    /\ RoiInvocationFailed
    /\ "roi_predictor" \in DOMAIN models /\ models["roi_predictor"] # FallbackRoi
    /\ models["roi_predictor"].raises
    /\ Flag(location_data, "fast_charging")
    /\ "error" \notin DOMAIN result
    /\ NumEq(result.predictions.roi.annual_roi, Num(15))

WithFastCharging(ld) == Update(ld, [fast_charging |-> BoolV(TRUE)])

\* annual_roi the estimator returns, with the registry of the run, for the
\* record of the run with fast_charging enabled
RoiWithFastCharging ==
    predict_roi(models, prepare_ev_features(WithFastCharging(location_data)).v,
                WithFastCharging(location_data)).annual_roi

FastChargingOff == Analyzed /\ features.ok /\ ~Flag(location_data, "fast_charging")

\* sum of the adjustments of the four flags other than fast_charging
OtherAdjustments(ld) ==
    (IF Flag(ld, "solar_powered") THEN 3 ELSE 0) + (IF Flag(ld, "amenities") THEN 2 ELSE 0)
    - (IF Flag(ld, "high_competition") THEN 4 ELSE 0) - (IF Flag(ld, "high_land_cost") THEN 3 ELSE 0)

\* C12 as stated: enabling fast_charging, all else fixed, raises the returned
\* annual_roi by exactly 5, for every base ROI and the other four flags.
C12_FastChargingAddsFive ==
    FastChargingOff => NumEq(RoiWithFastCharging, Plus(roi_prediction.annual_roi, 5))

\* C12 as amended: enabling fast_charging, all else fixed, raises the returned
\* annual_roi by exactly 5 when a base ROI was obtained and base ROI plus the
\* other adjustments is at least 5; below that the floor absorbs the difference
\* (annual_roi goes from 5 to max(5, base + others + 5)); when the estimator
\* returns its failure default annual_roi stays 15.
C12_FastChargingAddsFiveAboveFloor ==
    FastChargingOff =>
        IF ~base_roi.ok \/ ~estimate_revenue(location_data).ok
        THEN NumEq(roi_prediction.annual_roi, Num(15)) /\ NumEq(RoiWithFastCharging, Num(15))
        ELSE IF Ge(Plus(base_roi.v, OtherAdjustments(location_data)), 5)
             THEN NumEq(RoiWithFastCharging, Plus(roi_prediction.annual_roi, 5))
             ELSE /\ NumEq(roi_prediction.annual_roi, Num(5))
                  /\ NumEq(RoiWithFastCharging,
                           MaxNum(Num(5), Plus(base_roi.v, OtherAdjustments(location_data) + 5)))

\* all four other flags set, above the floor: 26 + 3 + 2 - 4 - 3 = 24 becomes 29
C12_Witness ==
    /\ FastChargingOff /\ base_roi.ok
    /\ \A k \in FlagNames \ {"fast_charging"} : Flag(location_data, k)
    /\ NumEq(roi_prediction.annual_roi, Num(24))
    /\ NumEq(RoiWithFastCharging, Num(29))

\* C15: a failure that neither the ROI estimator nor the classifier absorbs (a
\* non-numeric value in feature construction or in the recommendation rules)
\* is returned as a result holding only an error field; every other run
\* returns the full result; the call always returns.
C15_UnabsorbedFailureIsErrorResult ==
    Analyzed =>
        /\ result # None
        /\ IF ~features.ok \/ ~RecommendationInputsNumeric(location_data)
           THEN DOMAIN result = {"error"}
           ELSE DOMAIN result = FullResultKeys

\* the features were built and the ROI failure absorbed, then the rules raised
C15_Witness ==
    /\ Analyzed /\ features.ok
    /\ NumEq(roi_prediction.annual_roi, Num(15)) /\ ~base_roi.ok
    /\ ~RecommendationInputsNumeric(location_data)
    /\ result = [error |-> Msg("TypeError")]

\* 1 when the condition holds, else 0
Ind(b) == IF b THEN 1 ELSE 0

\* C17: the fallback base ROI is min(35, 12 + 3[traffic_density > 5]
\* + 2[income_level > 75] + 4[ev_adoption_rate > 20] + 2[competition_score < 3]
\* + 3[government_subsidy > 0]); raising ev_adoption_rate from <= 20 to > 20
\* adds exactly 4.
C17_FallbackBaseFormula ==
    (OnFallbackRoi /\ base_roi.ok) =>
        LET f == features.v
            sum == 12 + 3 * Ind(f.traffic_density.n > 5 * f.traffic_density.d)
                      + 2 * Ind(f.income_level.n > 75 * f.income_level.d)
                      + 4 * Ind(f.ev_adoption_rate.n > 20 * f.ev_adoption_rate.d)
                      + 2 * Ind(f.competition_score.n < 3 * f.competition_score.d)
                      + 3 * Ind(f.government_subsidy.n > 0)
        IN  /\ base_roi.v = Num(IF sum < 35 THEN sum ELSE 35)
            /\ Le(f.ev_adoption_rate, 20) =>
                  calculate_fallback_roi([f EXCEPT !.ev_adoption_rate = Num(21)])
                      = Ok(Plus(base_roi.v, 4))

\* EV adoption above 20 as the only increment
C17_Witness ==
    /\ OnFallbackRoi /\ base_roi.ok
    /\ Gt(features.v.ev_adoption_rate, 20)
    /\ NumEq(base_roi.v, Num(16))

\* the estimator returned from its except block
RoiDefaulted == ~base_roi.ok \/ ~estimate_revenue(location_data).ok

\* C18 as stated: every ROIResult, the failure default included, has
\* payback_period x annual_roi = 100 when annual_roi > 0 and
\* break_even_months = payback_period x 12.
C18_DerivedFieldsConsistent ==
    (Analyzed /\ roi_prediction # None) =>
        /\ Gt(roi_prediction.annual_roi, 0) =>
              roi_prediction.payback_period.n * roi_prediction.annual_roi.n
                  = 100 * roi_prediction.payback_period.d * roi_prediction.annual_roi.d
        /\ NumEq(roi_prediction.break_even_months, Times(roi_prediction.payback_period, 12))

\* C18 as amended: every ROIResult of the trained and of the fallback path has
\* payback_period x annual_roi = 100 and break_even_months = payback_period x 12;
\* the failure default is the fixed (15, 6.7, 80), for which the products are
\* 100.5 and 80.4.
C18_DerivedFieldsConsistentUnlessDefault ==
    (Analyzed /\ roi_prediction # None) =>
        IF RoiDefaulted
        THEN /\ NumEq(roi_prediction.annual_roi, Num(15))
             /\ NumEq(roi_prediction.payback_period, Frac(67, 10))
             /\ NumEq(roi_prediction.break_even_months, Num(80))
        ELSE /\ Gt(roi_prediction.annual_roi, 0)
             /\ roi_prediction.payback_period.n * roi_prediction.annual_roi.n
                   = 100 * roi_prediction.payback_period.d * roi_prediction.annual_roi.d
             /\ NumEq(roi_prediction.break_even_months, Times(roi_prediction.payback_period, 12))

\* a trained output of 40 with fast charging: 45 %, 100/45 years, 1200/45 months
C18_Witness ==
    /\ Analyzed /\ roi_prediction # None /\ ~RoiDefaulted
    /\ NumEq(roi_prediction.annual_roi, Num(MaxTrainedRoi + 5))
    /\ NumEq(roi_prediction.payback_period, Frac(100, MaxTrainedRoi + 5))
    /\ NumEq(roi_prediction.break_even_months, Frac(1200, MaxTrainedRoi + 5))

Scored == Analyzed /\ result # None /\ "error" \notin DOMAIN result

\* C19: the recommendation list is one ROI-tier message (Premium above 25,
\* Strong above 15, Moderate above 8, else Evaluate), then the two messages of
\* cluster 0, 1 or 3 and none for other ids, then the solar-canopy message iff
\* solar_potential > 70, then the community-education message iff
\* ev_adoption < 10, and nothing else.
C19_RecommendationListShape ==
    Scored =>
        LET roi == roi_prediction.annual_roi
            cid == cluster_prediction.cluster_id
            solar == Get(location_data, "solar_potential", Num(0))
            ev == Get(location_data, "ev_adoption", Num(0))
            tier == IF roi.n > 25 * roi.d THEN "Premium Investment"
                    ELSE IF roi.n > 15 * roi.d THEN "Strong Investment"
                    ELSE IF roi.n > 8 * roi.d THEN "Moderate Investment"
                    ELSE "Evaluate Carefully"
            pair == IF cid = 0 THEN <<"Install DC Fast Chargers", "Add Lounge Amenities">>
                    ELSE IF cid = 1 THEN <<"Partner with Retailers", "Focus on Business Hours">>
                    ELSE IF cid = 3 THEN <<"Ultra-Fast Charging", "Add Food Services">>
                    ELSE <<>>
            canopy == IF solar.n > 70 * solar.d THEN <<"Add Solar Canopy">> ELSE <<>>
            education == IF ev.n < 10 * ev.d THEN <<"Community Education">> ELSE <<>>
        IN  result.recommendations = <<tier>> \o pair \o canopy \o education

\* all four parts present, at the boundary of the Strong tier
C19_Witness ==
    /\ Scored
    /\ NumEq(roi_prediction.annual_roi, Num(15))
    /\ cluster_prediction.cluster_id = 3
    /\ result.recommendations = <<"Moderate Investment", "Ultra-Fast Charging", "Add Food Services",
                                  "Add Solar Canopy", "Community Education">>

\* C20: in every result without an error, investment_grade and risk_level are
\* the step functions of that result's annual_roi: A+ from 25, A from 20, B+
\* from 15, B from 10, C from 5, else D; Low from 20, Moderate from 12, High
\* from 8, else Very High.
C20_GradeAndRiskFollowRoi ==
    Scored =>
        LET roi == result.predictions.roi.annual_roi
        IN  /\ result.investment_grade =
                  (IF roi.n >= 25 * roi.d THEN "A+ (Excellent)"
                   ELSE IF roi.n >= 20 * roi.d THEN "A (Very Good)"
                   ELSE IF roi.n >= 15 * roi.d THEN "B+ (Good)"
                   ELSE IF roi.n >= 10 * roi.d THEN "B (Average)"
                   ELSE IF roi.n >= 5 * roi.d THEN "C (Fair)"
                   ELSE "D (Poor)")
            /\ result.risk_level =
                  (IF roi.n >= 20 * roi.d THEN "Low Risk"
                   ELSE IF roi.n >= 12 * roi.d THEN "Moderate Risk"
                   ELSE IF roi.n >= 8 * roi.d THEN "High Risk"
                   ELSE "Very High Risk")

\* an ROI exactly on a grade threshold and between two risk thresholds
C20_Witness ==
    /\ Scored
    /\ NumEq(result.predictions.roi.annual_roi, Num(15))
    /\ result.investment_grade = "B+ (Good)"
    /\ result.risk_level = "Moderate Risk"

---------------------------------------------------------------------------
(* Properties of repeated runs, checked under SpecRepeat *)

---------------------------------------------------------------------------
(* Further properties of the service, checked under Spec *)

\* C14: once startup has completed, no /predict or /batch_analyze call,
\* successful or failing, changes the registry: the registered names and the
\* value under each are the same after the call as before it.
C14_RegistryReadOnly == [][phase = "ready" => models' = models]_vars

\* a batch with one failing and one successful record, the registry as loaded
C14_Witness ==
    /\ phase = "ready" /\ IsBatch /\ BatchHasResults
    /\ Len(calls) = 2
    /\ response.body.successful_analysis = 1
    /\ models = load_essential_models(NoModels, xgb_file, cluster_file)

\* some kind of model has no entry in the registry
NoUsableModel ==
    phase = "ready"
    /\ ("roi_predictor" \notin DOMAIN models \/ "location_cluster" \notin DOMAIN models)

\* C16: when the registry holds no ROI estimator or no classifier, a /predict
\* or /batch_analyze request is not answered with a prediction but with a
\* service-level error.
C16_NoModelIsServiceError ==
    (NoUsableModel /\ "endpoint" \in DOMAIN request) =>
        /\ response.status # 200
        /\ "error" \in DOMAIN response.body

---------------------------------------------------------------------------
(* Properties that follow from the code alone, checked under SpecPipeline *)

OnFallbackClassifier ==
    Classified /\ "location_cluster" \in DOMAIN models
    /\ models["location_cluster"].type = "KMeans"

\* C22: with the fallback classifier registered every classification returns
\* the failure default (2, "Standard Commercial"): none of the five table names
\* is produced, no cluster-specific recommendation is emitted, and the cluster
\* contribution to the viability score is 30.
C22_FallbackClassifierAlwaysDefault ==
    OnFallbackClassifier =>
        /\ cluster_prediction =
              [cluster_id |-> 2, cluster_name |-> "Standard Commercial",
               description |-> "Balanced location with moderate potential"]
        /\ \A c \in DOMAIN cluster_types : cluster_prediction.cluster_name # cluster_types[c]
        /\ Scored =>
              LET roi == result.predictions.roi.annual_roi
                  roi_points == IF roi.n * 2 <= 50 * roi.d THEN Times(roi, 2) ELSE Num(50)
              IN  /\ Range(result.recommendations) \cap
                        {"Install DC Fast Chargers", "Add Lounge Amenities",
                         "Partner with Retailers", "Focus on Business Hours",
                         "Ultra-Fast Charging", "Add Food Services"} = {}
                  /\ NumEq(result.viability_score, Plus(roi_points, 30))

\* the fallback classifier beside a trained ROI model at the top of its range
C22_Witness ==
    /\ OnFallbackClassifier /\ Scored
    /\ Ge(result.predictions.roi.annual_roi, 25)
    /\ NumEq(result.viability_score, Num(80))

\* C23: in every result without an error, whichever ROI path produced it,
\* annual_roi is at least 5; so the grade is never "D (Poor)", the payback
\* period is never infinite, and viability_score lies between 30 and 95.
C23_RoiAtLeastFive ==
    Scored =>
        /\ Ge(result.predictions.roi.annual_roi, 5)
        /\ result.investment_grade # "D (Poor)"
        /\ result.predictions.roi.payback_period.kind = "num"
        /\ result.predictions.roi.break_even_months.kind = "num"
        /\ Ge(result.viability_score, 30) /\ Le(result.viability_score, 95)

\* a trained output far below the floor with an id outside the table: 2 x 5 + 20
C23_Witness ==
    /\ Scored /\ base_roi.ok /\ Lt(base_roi.v, 0)
    /\ NumEq(result.predictions.roi.annual_roi, Num(5))
    /\ result.investment_grade = "C (Fair)"
    /\ NumEq(result.viability_score, Num(30))

\* the record of the run lacks ev_adoption or daily_vehicles and its revenue
\* was estimated
RevenueWithDefault ==
    /\ Analyzed /\ features.ok /\ ~RoiDefaulted
    /\ ("ev_adoption" \notin DOMAIN location_data \/ "daily_vehicles" \notin DOMAIN location_data)

\* C24 as stated: a record without ev_adoption has feature and recommendation
\* rule at 0 and the revenue estimate at 5, one without daily_vehicles has the
\* feature at 0 and the revenue estimate at 1000; the estimated revenue of such
\* a record is above the base 50000.
C24_DefaultsDifferRevenueAboveBase ==
    RevenueWithDefault =>
        LET v == Get(location_data, "daily_vehicles", Num(1000))
            e == Get(location_data, "ev_adoption", Num(5))
        IN  /\ "ev_adoption" \notin DOMAIN location_data =>
                  features.v.ev_adoption_rate = Num(0)
            /\ "daily_vehicles" \notin DOMAIN location_data =>
                  NumEq(features.v.traffic_density, Num(0))
            /\ roi_prediction.estimated_annual_revenue
                  = 50000 + Trunc(v.n * e.n * 5475, v.d * e.d * 1000)
            /\ roi_prediction.estimated_annual_revenue > 50000

\* C24 as amended: a record without ev_adoption has feature and recommendation
\* rule at 0 (the community-education message is emitted) and the revenue
\* estimate at 5; one without daily_vehicles has the feature at 0 and the
\* revenue estimate at 1000; the estimated revenue is 50000 plus the whole part
\* of vehicles x ev_rate x 5.475 with those defaults, which is above 50000
\* unless that product is below 1, as when the attribute that is present is 0.
C24_DefaultsDifferRevenueFromDefaults ==
    RevenueWithDefault =>
        LET v == Get(location_data, "daily_vehicles", Num(1000))
            e == Get(location_data, "ev_adoption", Num(5))
        IN  /\ "ev_adoption" \notin DOMAIN location_data =>
                  /\ features.v.ev_adoption_rate = Num(0)
                  /\ Scored => result.recommendations[Len(result.recommendations)]
                                  = "Community Education"
            /\ "daily_vehicles" \notin DOMAIN location_data =>
                  NumEq(features.v.traffic_density, Num(0))
            /\ roi_prediction.estimated_annual_revenue
                  = 50000 + Trunc(v.n * e.n * 5475, v.d * e.d * 1000)
            /\ (roi_prediction.estimated_annual_revenue > 50000)
                  <=> (v.n * e.n * 5475 >= v.d * e.d * 1000)

\* neither attribute given: 50000 + 1000 x 0.05 x 0.1 x 365 x 15 = 77375
C24_Witness ==
    /\ RevenueWithDefault /\ Scored
    /\ "ev_adoption" \notin DOMAIN location_data
    /\ "daily_vehicles" \notin DOMAIN location_data
    /\ result.predictions.roi.estimated_annual_revenue = 77375
    /\ "Community Education" \in Range(result.recommendations)

=============================================================================
